---- MODULE Spec2Model ----
(***************************************************************************)
(* Table cache (src/src/table_cache.c) and archetype-table rows of flecs.  *)
(*                                                                         *)
(* A table cache keeps two vectors of elements, cache->tables (tables that *)
(* have rows) and cache->empty_tables, and a map cache->index from table   *)
(* id to a signed position: k >= 0 is position k of cache->tables, k < 0   *)
(* is position -k-1 of cache->empty_tables.  Vectors are 0-based in the    *)
(* code and 1-based sequences here: position p is element p+1.             *)
(*                                                                         *)
(* ecs_assert is modelled as fatal: a failing assertion ends the run with  *)
(* err set and the cache as it was when the call started.  A vector        *)
(* position out of bounds and a read through a null table pointer end the  *)
(* run the same way (vector_index_*, null_deref_26).                       *)
(*                                                                         *)
(* Spec      any caller of insert, remove and set_empty                    *)
(* SpecOnce  a caller that inserts every table at most once                *)
(* SpecNoRemove  as SpecOnce, without remove                               *)
(* SpecNull  as SpecOnce, with inserts of the null table                   *)
(* SpecTrack a caller that inserts every table once and reports every      *)
(*           0 -> 1 and 1 -> 0 change of its row count with set_empty      *)
(* SpecRows  rows of one archetype table: append_row and remove_row        *)
(* SpecWorld job-execution windows: worker jobs that stage deltas, and the *)
(*           coordinating thread that merges the stages                    *)
(***************************************************************************)
EXTENDS Integers, Sequences, FiniteSets, TLC

(* ------------------------------ bounds --------------------------------- *)

\* number of distinct non-null tables
NumTables == 2

\* largest number of elements the two vectors hold together
MaxLen == 2

\* largest row count of a table
MaxRows == 2

\* number of entities
NumEntities == 3

\* number of columns of the archetype table
NumColumns == 1

\* largest number of deltas the stages hold together
MaxDeltas == 2

(* ------------------------------ state ---------------------------------- *)

VARIABLES
    tables,        \* cache->tables: sequence of table ids (hdr.table)
    empty_tables,  \* cache->empty_tables
    index,         \* cache->index: function from registered ids to int32
    count,         \* ecs_table_count of every table (kept by SpecTrack)
    err,           \* "none", or the assertion / fault that ended the run
    last,          \* the last call: operation, arguments, cache before it
    data,          \* ecs_data_t of one archetype table
    entity_index,  \* the location record of every entity
    last_row,      \* the last row operation: arguments, state before it
    world,         \* ecs_world_t: main stage, worker stages, job counters
    last_world     \* the last step of the world: its kind, the world before

cache_vars == <<tables, empty_tables, index, count, err, last>>

row_vars == <<data, entity_index, last_row>>

world_vars == <<world, last_world>>

vars == <<tables, empty_tables, index, count, err, last, data, entity_index,
          last_row, world, last_world>>

NULL == 0
TableIds == 1..NumTables

\* the cache as one value
Cache == [tables |-> tables, empty_tables |-> empty_tables, index |-> index]

NoCache == [tables |-> <<>>, empty_tables |-> <<>>, index |-> <<>>]

(* ------------------------- vector and map ------------------------------ *)

ecs_vector_count(v) == Len(v)

ecs_vector_last(v) == v[Len(v)]

ecs_vector_add(v, x) == Append(v, x)

\* remove position i (0-based): the last element fills the slot
ecs_vector_remove(v, i) ==
    [j \in 1..(Len(v) - 1) |-> IF j = i + 1 THEN v[Len(v)] ELSE v[j]]

\* position i (0-based) of src is appended to dst and removed from src
ecs_vector_move_index(dst, src, i) ==
    [dst |-> ecs_vector_add(dst, src[i + 1]), src |-> ecs_vector_remove(src, i)]

ecs_map_has(m, id) == id \in DOMAIN m

ecs_map_set(m, id, v) ==
    [x \in (DOMAIN m) \cup {id} |-> IF x = id THEN v ELSE m[x]]

EmptyMap == [x \in {} |-> 0]

\* ecs_map_get(...)[0] for a present key
ecs_map_get(m, id) == m[id]

(* ------------------------------ helpers -------------------------------- *)

\* what reading elem->table->id yields when elem->table is the null pointer:
\* a fault, or whatever id the bytes at that address spell
SEGV == 0 - 1

Arr(c, name) == IF name = "tables" THEN c.tables ELSE c.empty_tables

SetArr(c, name, v) ==
    IF name = "tables" THEN [c EXCEPT !.tables = v]
    ELSE [c EXCEPT !.empty_tables = v]

\* the outcome of a call: the cache after it, a return value, the failure
Outcome(c, r, e) ==
    [tables |-> c.tables, empty_tables |-> c.empty_tables, index |-> c.index,
     ret |-> r, err |-> e]

Ok(c, r) == Outcome(c, r, "none")

Fail(c, e) == Outcome(c, 0, e)

(* ------------------------------ move_table ----------------------------- *)

\* move_table_bookkeeping without lines 45-47: the index entry of the element
\* that fills the vacated slot is left as it was
move_table_bookkeeping_NoPatch(c, table, idx, elem, last_src_index, empty, junk) ==
    LET id == IF elem # NULL THEN elem ELSE junk
    IN  IF last_src_index = 0 THEN [index |-> c.index, err |-> "none"]
        ELSE IF id = SEGV THEN [index |-> c.index, err |-> "null_deref_26"]
        ELSE IF ~ecs_map_has(c.index, id)
             THEN [index |-> c.index, err |-> "assert_27"]
        ELSE IF ~empty /\ ecs_map_get(c.index, id) >= 0 /\ table # elem
             THEN [index |-> c.index, err |-> "assert_36"]
        ELSE [index |-> c.index, err |-> "none"]

\* move_table_bookkeeping that stores the position without its sign where
\* line 46 stores index as it was passed in
move_table_bookkeeping_Unsigned(c, table, idx, elem, last_src_index, empty, junk) ==
    LET id == IF elem # NULL THEN elem ELSE junk
    IN  IF last_src_index = 0 THEN [index |-> c.index, err |-> "none"]
        ELSE IF id = SEGV THEN [index |-> c.index, err |-> "null_deref_26"]
        ELSE IF ~ecs_map_has(c.index, id)
             THEN [index |-> c.index, err |-> "assert_27"]
        ELSE LET stored == ecs_map_get(c.index, id)
                 old_index == IF ~empty /\ stored < 0
                              THEN stored * (0 - 1) - 1 ELSE stored
                 position == IF idx < 0 THEN idx * (0 - 1) - 1 ELSE idx
             IN  IF ~empty /\ stored >= 0 /\ table # elem
                 THEN [index |-> c.index, err |-> "assert_36"]
                 ELSE [index |-> IF old_index = last_src_index
                                 THEN [c.index EXCEPT ![id] = position]
                                 ELSE c.index,
                       err |-> "none"]

\* table_cache.c 24-51: the bookkeeping for the last element of the source
\* array.  Yields the index map and the failure, if any.
move_table_bookkeeping(c, table, idx, elem, last_src_index, empty, junk) ==
    LET id == IF elem # NULL THEN elem ELSE junk
    IN  IF last_src_index = 0 THEN [index |-> c.index, err |-> "none"]
        ELSE IF id = SEGV THEN [index |-> c.index, err |-> "null_deref_26"]
        ELSE IF ~ecs_map_has(c.index, id)
             THEN [index |-> c.index, err |-> "assert_27"]
        ELSE LET stored == ecs_map_get(c.index, id)
                 old_index == IF ~empty /\ stored < 0
                              THEN stored * (0 - 1) - 1 ELSE stored
             IN  IF ~empty /\ stored >= 0 /\ table # elem
                 THEN [index |-> c.index, err |-> "assert_36"]
                 ELSE [index |-> IF old_index = last_src_index
                                 THEN [c.index EXCEPT ![id] = idx]
                                 ELSE c.index,
                       err |-> "none"]

\* move_table_vectors that returns the position the element had in src
\* where line 82 returns the position it got in dst
move_table_vectors_OldIndex(c, table, idx, dst, src, empty) ==
    LET src_array == Arr(c, src)
        old_index == IF dst = "NULL" THEN 0
                     ELSE IF ~empty THEN idx * (0 - 1) - 1 ELSE idx
    IN  IF old_index < 0 \/ old_index >= ecs_vector_count(src_array)
        THEN Fail(c, "vector_index_63")
        ELSE IF dst = "NULL"
        THEN Ok(SetArr(c, src, ecs_vector_remove(src_array, old_index)), 0)
        ELSE LET m == ecs_vector_move_index(Arr(c, dst), src_array, old_index)
             IN  Ok(SetArr(SetArr(c, dst, m.dst), src, m.src), old_index)

\* table_cache.c 55-72: move the element to dst, or drop it from src.  The
\* old_index read on line 71 is the one declared on line 15, which is 0: the
\* declaration on line 29 is local to the block of line 24.
move_table_vectors(c, table, idx, dst, src, empty) ==
    LET src_array == Arr(c, src)
    IN  IF dst # "NULL"
        THEN LET old_index == IF ~empty THEN idx * (0 - 1) - 1 ELSE idx
                 new_index == ecs_vector_count(Arr(c, dst))
             IN  IF old_index < 0 \/ old_index >= ecs_vector_count(src_array)
                 THEN Fail(c, "vector_index_63")
                 ELSE LET m == ecs_vector_move_index(Arr(c, dst), src_array,
                                                     old_index)
                          c2 == SetArr(SetArr(c, dst, m.dst), src, m.src)
                      IN  IF ecs_vector_last(m.dst) # table
                          THEN Fail(c, "assert_67")
                          ELSE IF ecs_vector_count(m.dst) # new_index + 1
                          THEN Fail(c, "assert_68")
                          ELSE Ok(c2, new_index)
        ELSE LET old_index == 0
             IN  IF old_index >= ecs_vector_count(src_array)
                 THEN Fail(c, "vector_index_71")
                 ELSE Ok(SetArr(c, src, ecs_vector_remove(src_array, old_index)),
                         0)

\* move_table without lines 78-81: the position is returned without the
\* sign of the empty array
move_table_NoSign(c, table, idx, dst, src, empty, junk) ==
    LET src_array == Arr(c, src)
        last_src_index == ecs_vector_count(src_array) - 1
    IN  IF last_src_index < 0 THEN Fail(c, "assert_18")
        ELSE LET elem == ecs_vector_last(src_array)
                 b == move_table_bookkeeping(c, table, idx, elem,
                                             last_src_index, empty, junk)
             IN  IF b.err # "none" THEN Fail(c, b.err)
                 ELSE LET v == move_table_vectors([c EXCEPT !.index = b.index],
                                                  table, idx, dst, src, empty)
                      IN  IF v.err # "none" THEN Fail(c, v.err)
                          ELSE IF ecs_vector_count(Arr(v, src)) # last_src_index
                          THEN Fail(c, "assert_75")
                          ELSE Outcome(v, v.ret, "none")

\* table_cache.c 5-84
move_table(c, table, idx, dst, src, empty, junk) ==
    LET src_array == Arr(c, src)
        last_src_index == ecs_vector_count(src_array) - 1
    IN  IF last_src_index < 0 THEN Fail(c, "assert_18")
        ELSE LET elem == ecs_vector_last(src_array)
                 b == move_table_bookkeeping(c, table, idx, elem,
                                             last_src_index, empty, junk)
             IN  IF b.err # "none" THEN Fail(c, b.err)
                 ELSE LET v == move_table_vectors([c EXCEPT !.index = b.index],
                                                  table, idx, dst, src, empty)
                      IN  IF v.err # "none" THEN Fail(c, v.err)
                          ELSE IF ecs_vector_count(Arr(v, src)) # last_src_index
                          THEN Fail(c, "assert_75")
                          ELSE Outcome(v,
                                       IF empty THEN v.ret * (0 - 1) - 1
                                       ELSE v.ret,
                                       "none")

(* --------------------------- cache operations -------------------------- *)

\* table_cache.c 86-96
ecs_table_cache_init ==
    [tables |-> <<>>, empty_tables |-> <<>>, index |-> EmptyMap]

\* _ecs_table_cache_insert with line 123 before line 122: the index of an
\* empty table is taken from the count before the element is added
ecs_table_cache_insert_EarlyCount(c, table, rows) ==
    LET empty == IF table = NULL THEN FALSE ELSE rows = 0
        et == IF empty THEN ecs_vector_add(c.empty_tables, table)
              ELSE c.empty_tables
        idx == IF empty THEN 0 - ecs_vector_count(c.empty_tables)
               ELSE ecs_vector_count(c.tables)
        tb == IF empty THEN c.tables ELSE ecs_vector_add(c.tables, table)
        ix == IF table # NULL THEN ecs_map_set(c.index, table, idx)
              ELSE c.index
    IN  [tables |-> tb, empty_tables |-> et, index |-> ix,
         ret |-> (IF empty THEN Len(et) ELSE Len(tb)) - 1, err |-> "none"]

\* table_cache.c 106-136.  ret is the position of the returned element in
\* the array it was added to.
ecs_table_cache_insert(c, table, rows) ==
    LET empty == IF table = NULL THEN FALSE ELSE rows = 0
        et == IF empty THEN ecs_vector_add(c.empty_tables, table)
              ELSE c.empty_tables
        idx == IF empty THEN 0 - ecs_vector_count(et)
               ELSE ecs_vector_count(c.tables)
        tb == IF empty THEN c.tables ELSE ecs_vector_add(c.tables, table)
        ix == IF table # NULL THEN ecs_map_set(c.index, table, idx)
              ELSE c.index
    IN  [tables |-> tb, empty_tables |-> et, index |-> ix,
         ret |-> (IF empty THEN Len(et) ELSE Len(tb)) - 1, err |-> "none"]

\* _ecs_table_cache_remove without lines 143-145: a table without an entry
\* is taken to be at position 0 of the non-empty array
ecs_table_cache_remove_NoCheck(c, table, junk) ==
    LET idx == IF ecs_map_has(c.index, table)
               THEN ecs_map_get(c.index, table) ELSE 0
    IN  IF idx < 0
        THEN move_table(c, table, idx, "NULL", "empty_tables", FALSE, junk)
        ELSE move_table(c, table, idx, "NULL", "tables", TRUE, junk)

\* table_cache.c 138-152
ecs_table_cache_remove(c, table, junk) ==
    IF ~ecs_map_has(c.index, table) THEN Ok(c, 0)
    ELSE IF ecs_map_get(c.index, table) < 0
         THEN move_table(c, table, ecs_map_get(c.index, table), "NULL",
                         "empty_tables", FALSE, junk)
         ELSE move_table(c, table, ecs_map_get(c.index, table), "NULL",
                         "tables", TRUE, junk)

\* _ecs_table_cache_set_empty without lines 167-169: only a table that is
\* already in the empty array returns early
ecs_table_cache_set_empty_OneReturn(c, table, empty, junk) ==
    IF ~ecs_map_has(c.index, table) THEN Ok(c, 0)
    ELSE IF empty /\ ecs_map_get(c.index, table) < 0 THEN Ok(c, 0)
    ELSE LET m == IF ecs_map_get(c.index, table) < 0
                  THEN move_table(c, table, ecs_map_get(c.index, table),
                                  "tables", "empty_tables", empty, junk)
                  ELSE move_table(c, table, ecs_map_get(c.index, table),
                                  "empty_tables", "tables", empty, junk)
         IN  IF m.err # "none" THEN m
             ELSE [m EXCEPT !.index[table] = m.ret]

\* table_cache.c 154-178
ecs_table_cache_set_empty(c, table, empty, junk) ==
    IF ~ecs_map_has(c.index, table) THEN Ok(c, 0)
    ELSE IF empty /\ ecs_map_get(c.index, table) < 0 THEN Ok(c, 0)
    ELSE IF ~empty /\ ecs_map_get(c.index, table) >= 0 THEN Ok(c, 0)
    ELSE LET m == IF ecs_map_get(c.index, table) < 0
                  THEN move_table(c, table, ecs_map_get(c.index, table),
                                  "tables", "empty_tables", empty, junk)
                  ELSE move_table(c, table, ecs_map_get(c.index, table),
                                  "empty_tables", "tables", empty, junk)
         IN  IF m.err # "none" THEN m
             ELSE [m EXCEPT !.index[table] = m.ret]

(* --------------------------- archetype table --------------------------- *)

Entities == 1..NumEntities

Columns == 1..NumColumns

\* component values
Values == {"x", "y"}

\* ecs_data_t with no rows
NoData ==
    [entities |-> <<>>, record_ptrs |-> <<>>,
     columns |-> [c \in Columns |-> <<>>]]

\* the record of an entity that is in no table
NoLocation == [in_table |-> FALSE, row |-> 0]

\* append_row: every array grows by one slot at the shared new length; the
\* back-reference of the row is the record of its entity
append_row(d, e, vals) ==
    [entities |-> ecs_vector_add(d.entities, e),
     record_ptrs |-> ecs_vector_add(d.record_ptrs, e),
     columns |-> [c \in Columns |-> ecs_vector_add(d.columns[c], vals[c])]]

\* remove_row that does not patch the record of the moved row
remove_row_NoPatch(d, ei, r) ==
    [data |->
       [entities |-> ecs_vector_remove(d.entities, r),
        record_ptrs |-> ecs_vector_remove(d.record_ptrs, r),
        columns |-> [c \in Columns |-> ecs_vector_remove(d.columns[c], r)]],
     entity_index |-> ei]

\* remove_row: the last row is copied into row r of every array, the arrays
\* are truncated by one, and the record the moved row refers to gets row r;
\* nothing is copied or patched when r is the last row
remove_row(d, ei, r) ==
    LET n == ecs_vector_count(d.entities)
    IN  [data |->
           [entities |-> ecs_vector_remove(d.entities, r),
            record_ptrs |-> ecs_vector_remove(d.record_ptrs, r),
            columns |-> [c \in Columns |-> ecs_vector_remove(d.columns[c], r)]],
         entity_index |->
           IF r # n - 1 THEN [ei EXCEPT ![d.record_ptrs[n]].row = r] ELSE ei]

(* ---------------------------- stages and merge ------------------------- *)

\* entity handles of the world
Handles == {"e1", "e2"}

\* worker threads, each with its own stage; stages are merged in this order
Workers == {"w1", "w2"}

StageOrder == <<"w1", "w2">>

\* what the main stage holds for a handle: no entity, an entity without
\* components, an entity with component A
NoEntity == "none"

EntityStates == {"none", "bare", "A"}

\* a buffered mutation
Deltas == [kind : {"create", "delete", "add", "remove"}, entity : Handles]

\* one delta applied to what a stage holds for its entity; a delta on a
\* handle that is not alive changes nothing
apply_delta(st, d) ==
    IF d.kind = "create" THEN (IF st = "none" THEN "bare" ELSE st)
    ELSE IF d.kind = "delete" THEN "none"
    ELSE IF st = "none" THEN st
    ELSE IF d.kind = "add" THEN "A"
    ELSE "bare"

\* merge that replays the deltas last to first
RECURSIVE merge_Reversed(_, _)
merge_Reversed(m, ds) ==
    IF ds = <<>> THEN m
    ELSE LET d == ds[Len(ds)]
         IN  merge_Reversed([m EXCEPT ![d.entity] = apply_delta(@, d)],
                            SubSeq(ds, 1, Len(ds) - 1))

\* merge(stage -> main): the staged deltas are replayed against the main
\* stage in the order they were recorded
RECURSIVE merge(_, _)
merge(m, ds) ==
    IF ds = <<>> THEN m
    ELSE LET d == Head(ds)
         IN  merge([m EXCEPT ![d.entity] = apply_delta(@, d)], Tail(ds))

\* the world after construction: nothing in progress, empty stages
NewWorld ==
    [main |-> [e \in Handles |-> NoEntity],
     stage |-> [w \in Workers |-> <<>>],
     job |-> [w \in Workers |-> "idle"],
     job_count |-> 0,
     jobs_finished |-> 0,
     in_progress |-> FALSE,
     is_merging |-> FALSE,
     merge_next |-> 1]

\* a merge that starts as soon as one job has finished
JobsDone_AnyFinished == world.jobs_finished > 0

\* the coordinating thread waits for the completion count to reach the
\* dispatched job count
JobsDone == world.jobs_finished = world.job_count

StagedTotal ==
    LET RECURSIVE Sum(_)
        Sum(S) == IF S = {} THEN 0
                  ELSE LET w == CHOOSE x \in S : TRUE
                       IN  Len(world.stage[w]) + Sum(S \ {w})
    IN  Sum(Workers)

(* ------------------------------ actions -------------------------------- *)

\* the ids a read through a null elem->table can yield
JunkIds ==
    IF \E i \in 1..Len(tables) : tables[i] = NULL
    THEN TableIds \cup {SEGV} ELSE {SEGV}

\* the record of a call in last
Call(op, table, empty, r) ==
    [op |-> op, table |-> table, empty |-> empty, pre |-> Cache,
     ret |-> r.ret]

\* the cache takes the outcome of a call; a failed call ends the run
Commit(r) ==
    /\ tables' = r.tables
    /\ empty_tables' = r.empty_tables
    /\ index' = r.index
    /\ err' = r.err

Running == err = "none"

Init ==
    /\ tables = ecs_table_cache_init.tables
    /\ empty_tables = ecs_table_cache_init.empty_tables
    /\ index = ecs_table_cache_init.index
    /\ count = [t \in TableIds |-> 0]
    /\ err = "none"
    /\ last = [op |-> "init", table |-> NULL, empty |-> FALSE,
               pre |-> ecs_table_cache_init, ret |-> 0]
    /\ data = NoData
    /\ entity_index = [e \in Entities |-> NoLocation]
    /\ last_row = [op |-> "init", row |-> 0, data |-> NoData,
                   entity_index |-> [e \in Entities |-> NoLocation]]
    /\ world = NewWorld
    /\ last_world = [op |-> "init", worker |-> "w1",
                     delta |-> [kind |-> "create", entity |-> "e1"],
                     pre |-> NewWorld]

\* _ecs_table_cache_insert(cache, t, size) while t holds `rows` rows
Insert(t, rows) ==
    /\ Running
    /\ Len(tables) + Len(empty_tables) < MaxLen
    /\ LET r == ecs_table_cache_insert(Cache, t, rows)
       IN  Commit(r) /\ last' = Call("insert", t, rows = 0, r)
    /\ UNCHANGED <<count, row_vars, world_vars>>

\* _ecs_table_cache_remove(cache, t)
Remove(t) ==
    /\ Running
    /\ \E junk \in JunkIds :
         LET r == ecs_table_cache_remove(Cache, t, junk)
         IN  Commit(r) /\ last' = Call("remove", t, FALSE, r)
    /\ UNCHANGED <<count, row_vars, world_vars>>

\* _ecs_table_cache_set_empty(cache, t, e)
SetEmpty(t, e) ==
    /\ Running
    /\ \E junk \in JunkIds :
         LET r == ecs_table_cache_set_empty(Cache, t, e, junk)
         IN  Commit(r) /\ last' = Call("set_empty", t, e, r)
    /\ UNCHANGED <<count, row_vars, world_vars>>

\* Any caller: the calls come in any order, with any arguments; the row
\* count a call of insert reads is an input of the call.
Next ==
    \E t \in TableIds :
        \/ \E rows \in 0..MaxRows : Insert(t, rows)
        \/ Remove(t)
        \/ \E e \in BOOLEAN : SetEmpty(t, e)

Spec == Init /\ [][Next]_vars

(* -------------------- a caller that inserts a table once --------------- *)

\* insert of a table that was not inserted before
InsertNew(t, rows) ==
    /\ ~ecs_map_has(index, t)
    /\ Insert(t, rows)

NextOnce ==
    \E t \in TableIds :
        \/ \E rows \in 0..MaxRows : InsertNew(t, rows)
        \/ Remove(t)
        \/ \E e \in BOOLEAN : SetEmpty(t, e)

SpecOnce == Init /\ [][NextOnce]_vars

\* Without remove the arrays hold at most one element per table, so the
\* callers that never remove are given one table more and no other limit.
MoreTableIds == 1..(NumTables + 1)

\* insert of a table that was not inserted before, whatever the arrays hold
InsertDistinct(t, rows) ==
    /\ Running
    /\ ~ecs_map_has(index, t)
    /\ LET r == ecs_table_cache_insert(Cache, t, rows)
       IN  Commit(r) /\ last' = Call("insert", t, rows = 0, r)
    /\ UNCHANGED <<count, row_vars, world_vars>>

\* callers that insert a table at most once and never remove
NextNoRemove ==
    \E t \in MoreTableIds :
        \/ \E rows \in 0..MaxRows : InsertDistinct(t, rows)
        \/ \E e \in BOOLEAN : SetEmpty(t, e)

SpecNoRemove == Init /\ [][NextNoRemove]_vars

\* _ecs_table_cache_insert(cache, NULL, size): an element without a table
InsertNull ==
    /\ Running
    /\ Len(tables) + Len(empty_tables) < MaxLen
    /\ LET r == ecs_table_cache_insert(Cache, NULL, 0)
       IN  Commit(r) /\ last' = Call("insert", NULL, FALSE, r)
    /\ UNCHANGED <<count, row_vars, world_vars>>

\* callers that insert a table at most once, and elements without a table
NextNull ==
    \/ InsertNull
    \/ \E t \in TableIds :
          \/ \E rows \in 0..MaxRows : InsertNew(t, rows)
          \/ Remove(t)
          \/ \E e \in BOOLEAN : SetEmpty(t, e)

SpecNull == Init /\ [][NextNull]_vars

(* -------------------- tables whose rows are tracked -------------------- *)

\* insert of a table that was not inserted before, with its current rows
TrackInsert(t) == InsertNew(t, count[t])

\* a row is added to table t; the 0 -> 1 transition notifies the cache with
\* set_empty(t, count == 0)
RowAppended(t) ==
    /\ Running
    /\ count[t] < MaxRows
    /\ count' = [count EXCEPT ![t] = @ + 1]
    /\ \E junk \in JunkIds :
         LET r == IF count[t] = 0
                  THEN ecs_table_cache_set_empty(Cache, t, FALSE, junk)
                  ELSE Ok(Cache, 0)
         IN  Commit(r) /\ last' = Call("append_row", t, FALSE, r)
    /\ UNCHANGED <<row_vars, world_vars>>

\* a row is deleted from table t; the 1 -> 0 transition notifies the cache
RowDeleted(t) ==
    /\ Running
    /\ count[t] > 0
    /\ count' = [count EXCEPT ![t] = @ - 1]
    /\ \E junk \in JunkIds :
         LET r == IF count[t] = 1
                  THEN ecs_table_cache_set_empty(Cache, t, TRUE, junk)
                  ELSE Ok(Cache, 0)
         IN  Commit(r) /\ last' = Call("delete_row", t, count[t] = 1, r)
    /\ UNCHANGED <<row_vars, world_vars>>

NextTrack ==
    \E t \in TableIds :
        \/ TrackInsert(t)
        \/ RowAppended(t)
        \/ RowDeleted(t)

SpecTrack == Init /\ [][NextTrack]_vars

(* ----------------------------- table rows ------------------------------ *)

\* an entity that is in no table gets a row, with any component values
AppendRow(e, vals) ==
    /\ ~entity_index[e].in_table
    /\ data' = append_row(data, e, vals)
    /\ entity_index' = [entity_index EXCEPT
                          ![e] = [in_table |-> TRUE,
                                  row |-> ecs_vector_count(data.entities)]]
    /\ last_row' = [op |-> "append_row", row |-> ecs_vector_count(data.entities),
                    data |-> data, entity_index |-> entity_index]
    /\ UNCHANGED <<cache_vars, world_vars>>

\* row r is removed; its entity is in no table afterwards
RemoveRow(r) ==
    /\ r < ecs_vector_count(data.entities)
    /\ LET m == remove_row(data, entity_index, r)
       IN  /\ data' = m.data
           /\ entity_index' = [m.entity_index EXCEPT
                                 ![data.entities[r + 1]] = NoLocation]
    /\ last_row' = [op |-> "remove_row", row |-> r, data |-> data,
                    entity_index |-> entity_index]
    /\ UNCHANGED <<cache_vars, world_vars>>

NextRows ==
    \/ \E e \in Entities : \E vals \in [Columns -> Values] : AppendRow(e, vals)
    \/ \E r \in 0..(NumEntities - 1) : RemoveRow(r)

SpecRows == Init /\ [][NextRows]_vars

(* ------------------------- progress of the world ----------------------- *)

\* the record of a step in last_world
Step(op, w, d) == [op |-> op, worker |-> w, delta |-> d, pre |-> world]

NoDelta == [kind |-> "create", entity |-> "e1"]

\* a job-execution window opens: jobs are dispatched to some of the workers
BeginProgress ==
    /\ ~world.in_progress
    /\ \E busy \in SUBSET Workers :
         world' = [world EXCEPT
                     !.in_progress = TRUE,
                     !.jobs_finished = 0,
                     !.job_count = Cardinality(busy),
                     !.job = [w \in Workers |->
                                IF w \in busy THEN "running" ELSE "idle"]]
    /\ last_world' = Step("begin", "w1", NoDelta)
    /\ UNCHANGED <<cache_vars, row_vars>>

\* a running job mutates: the delta goes to the stage of its worker
Mutate(w, d) ==
    /\ world.job[w] = "running"
    /\ StagedTotal < MaxDeltas
    /\ world' = [world EXCEPT !.stage[w] = Append(@, d)]
    /\ last_world' = Step("mutate", w, d)
    /\ UNCHANGED <<cache_vars, row_vars>>

\* a job runs to completion and adds one to the completion count
FinishJob(w) ==
    /\ world.job[w] = "running"
    /\ world' = [world EXCEPT !.job[w] = "done",
                              !.jobs_finished = @ + 1]
    /\ last_world' = Step("finish", w, NoDelta)
    /\ UNCHANGED <<cache_vars, row_vars>>

\* the coordinating thread stops waiting and starts to merge
BeginMerge ==
    /\ world.in_progress
    /\ ~world.is_merging
    /\ JobsDone
    /\ world' = [world EXCEPT !.is_merging = TRUE, !.merge_next = 1]
    /\ last_world' = Step("begin_merge", "w1", NoDelta)
    /\ UNCHANGED <<cache_vars, row_vars>>

\* merge of the next stage: its deltas are replayed, then it is cleared
MergeStage ==
    /\ world.is_merging
    /\ world.merge_next <= Len(StageOrder)
    /\ LET w == StageOrder[world.merge_next]
       IN  /\ world' = [world EXCEPT
                          !.main = merge(@, world.stage[w]),
                          !.stage[w] = <<>>,
                          !.merge_next = @ + 1]
           /\ last_world' = Step("merge", w, NoDelta)
    /\ UNCHANGED <<cache_vars, row_vars>>

\* all stages are merged: the window closes
EndProgress ==
    /\ world.is_merging
    /\ world.merge_next > Len(StageOrder)
    /\ world' = [world EXCEPT
                   !.is_merging = FALSE,
                   !.in_progress = FALSE,
                   !.merge_next = 1,
                   !.job_count = 0,
                   !.jobs_finished = 0,
                   !.job = [w \in Workers |-> "idle"]]
    /\ last_world' = Step("end", "w1", NoDelta)
    /\ UNCHANGED <<cache_vars, row_vars>>

NextWorld ==
    \/ BeginProgress
    \/ \E w \in Workers : \E d \in Deltas : Mutate(w, d)
    \/ \E w \in Workers : FinishJob(w)
    \/ BeginMerge
    \/ MergeStage
    \/ EndProgress

SpecWorld == Init /\ [][NextWorld]_vars

(* ------------------------ vocabulary of the claims --------------------- *)

Decode(k) == IF k < 0 THEN 0 - k - 1 ELSE k

\* the positions (0-based) of array a that refer to table t
Positions(a, t) == {p \in 0..(Len(a) - 1) : a[p + 1] = t}

\* the number of elements of both arrays that refer to t
Refs(c, t) ==
    Cardinality(Positions(c.tables, t))
        + Cardinality(Positions(c.empty_tables, t))

\* the array the index entry k points into
ArrayOf(c, k) == IF k < 0 THEN c.empty_tables ELSE c.tables

\* the index entry of t decodes to a position that holds t
Located(c, t) ==
    /\ t \in DOMAIN c.index
    /\ Decode(c.index[t]) \in Positions(ArrayOf(c, c.index[t]), t)

Bijection(c) ==
    \A t \in DOMAIN c.index : Refs(c, t) = 1 /\ Located(c, t)

\* the elements of array a as a set
Elems(a) == {a[i] : i \in 1..Len(a)}

\* the call recorded in last is set_empty and had to move its table
Moved ==
    /\ last.op = "set_empty"
    /\ last.table \in DOMAIN last.pre.index
    /\ last.empty = (last.pre.index[last.table] >= 0)

(* ------------------------------- claims -------------------------------- *)

\* C1: in every state reached by insert, remove and set_empty calls, every
\* table with an entry in cache->index is referenced by exactly one element
\* of the two arrays, and its stored index decodes to that element's position.
C1_Bijection == Bijection(Cache)

\* the array that held the table of the call in last, before and after
SrcBefore == ArrayOf(last.pre, last.pre.index[last.table])

SrcAfter == ArrayOf(Cache, last.pre.index[last.table])

\* the sign-encoding of position p for the array index entry k points into
EncodeLike(k, p) == IF k < 0 THEN 0 - p - 1 ELSE p

\* C2: remove(t) of a registered table at position p of an array of n >= 2
\* elements leaves n-1 elements, with the previously last element in slot p,
\* that element's index entry corrected to p, and every other element where
\* it was.
C2_SwapBackfill ==
    (/\ last.op = "remove"
     /\ err = "none"
     /\ Located(last.pre, last.table)
     /\ Len(SrcBefore) >= 2)
    => LET k == last.pre.index[last.table]
           p == Decode(k)
           n == Len(SrcBefore)
       IN  /\ Len(SrcAfter) = n - 1
           /\ p < n - 1 =>
                /\ SrcAfter[p + 1] = SrcBefore[n]
                /\ index[SrcBefore[n]] = EncodeLike(k, p)
           /\ \A q \in 0..(n - 2) : q # p => SrcAfter[q + 1] = SrcBefore[q + 1]

\* C3: after remove(t) of a registered table the cache holds no entry for
\* t: t has no index entry, no element refers to t, and a following
\* set_empty(t, e) or remove(t) returns early and changes nothing.
C3_RemoveDeletesEntry ==
    (/\ last.op = "remove"
     /\ err = "none"
     /\ last.table \in DOMAIN last.pre.index)
    => /\ last.table \notin DOMAIN index
       /\ Refs(Cache, last.table) = 0
       /\ ecs_table_cache_remove(Cache, last.table, SEGV) = Ok(Cache, 0)
       /\ \A e \in BOOLEAN :
            ecs_table_cache_set_empty(Cache, last.table, e, SEGV) = Ok(Cache, 0)

\* C4: when the bijection holds and set_empty(t, true) is called for a table
\* of the non-empty array that holds M other tables, t ends in the empty
\* array with a negative index entry that decodes to its position, and the
\* non-empty array holds exactly the M other tables, each with an index entry
\* equal to its position; and the same with the arrays exchanged for
\* set_empty(t, false).
C4_CacheMoveCorrect ==
    (Moved /\ Bijection(last.pre))
    => LET t == last.table
           k == last.pre.index[t]
       IN  /\ err = "none"
           /\ (index[t] < 0) = (k >= 0)
           /\ Located(Cache, t)
           /\ Len(SrcAfter) = Len(SrcBefore) - 1
           /\ Elems(SrcAfter) = Elems(SrcBefore) \ {t}
           /\ \A p \in 0..(Len(SrcAfter) - 1) :
                index[SrcAfter[p + 1]] = EncodeLike(k, p)

\* a move out of the non-empty array that leaves one other table behind, which
\* had to be swapped into the slot of the moved table
C4_Witness ==
    /\ Moved
    /\ Bijection(last.pre)
    /\ err = "none"
    /\ last.empty
    /\ last.pre.index[last.table] = 0
    /\ Len(last.pre.tables) = 2
    /\ Len(tables) = 1

\* the opposite direction of C4_Witness
C4_WitnessBack ==
    /\ Moved
    /\ Bijection(last.pre)
    /\ err = "none"
    /\ ~last.empty
    /\ last.pre.index[last.table] = 0 - 1
    /\ Len(last.pre.empty_tables) = 2
    /\ Len(empty_tables) = 1

\* C5: set_empty(t, true) of a registered table with a negative index entry,
\* and set_empty(t, false) of one with a non-negative entry, change neither
\* array nor any index entry.
C5_SetEmptyNoOp ==
    (/\ last.op = "set_empty"
     /\ last.table \in DOMAIN last.pre.index
     /\ last.empty = (last.pre.index[last.table] < 0))
    => /\ err = "none"
       /\ Cache = last.pre

C5_Witness ==
    /\ last.op = "set_empty"
    /\ last.table \in DOMAIN last.pre.index
    /\ last.empty
    /\ last.pre.index[last.table] < 0
    /\ Len(last.pre.empty_tables) = 2
    /\ Bijection(last.pre)
    /\ Cache = last.pre

\* C6: insert(t) of a non-null table with 0 rows makes t the last element of
\* the empty array, at position p with index[t] = -p-1; with rows it makes t
\* the last element of the non-empty array, at position p with index[t] = p;
\* the element returned has t as its table.
C6_InsertPlaces ==
    (last.op = "insert" /\ last.table # NULL)
    => LET t == last.table
           a == IF last.empty THEN empty_tables ELSE tables
           was == IF last.empty THEN last.pre.empty_tables ELSE last.pre.tables
           p == Len(a) - 1
       IN  /\ err = "none"
           /\ Len(a) = Len(was) + 1
           /\ a[p + 1] = t
           /\ index[t] = (IF last.empty THEN 0 - p - 1 ELSE p)
           /\ last.ret = p
           /\ (IF last.empty THEN tables = last.pre.tables
               ELSE empty_tables = last.pre.empty_tables)

\* a table without rows inserted behind another one of the empty array
C6_Witness ==
    /\ last.op = "insert"
    /\ last.empty
    /\ Len(empty_tables) = 2
    /\ index[last.table] = 0 - 2
    /\ Bijection(Cache)

\* the table of the call in last was the last element of its array
WasLast ==
    /\ Located(last.pre, last.table)
    /\ Decode(last.pre.index[last.table]) = Len(SrcBefore) - 1

\* C7: when the table moved by set_empty, or dropped by remove, is the last
\* element of its source array (of length 1 or more), no other table's index
\* entry is changed, the source array loses its last element and nothing
\* else, and after set_empty the table's entry is the sign-encoded position
\* it has in the destination array.
C7_SelfSwap ==
    ((Moved \/ last.op = "remove") /\ WasLast)
    => /\ err = "none"
       /\ \A u \in DOMAIN last.pre.index :
            u # last.table => index[u] = last.pre.index[u]
       /\ SrcAfter = SubSeq(SrcBefore, 1, Len(SrcBefore) - 1)
       /\ Moved =>
            LET k == last.pre.index[last.table]
                dst == IF k < 0 THEN tables ELSE empty_tables
            IN  /\ index[last.table] = EncodeLike(0 - k - 1, Len(dst) - 1)
                /\ dst[Len(dst)] = last.table

\* C8: with every table inserted once, with its current row count, and every
\* 0 -> 1 and 1 -> 0 transition of its row count followed by
\* set_empty(table, count == 0), a registered table is in the empty array
\* exactly when it has no rows and in the non-empty array exactly when it
\* has rows.
C8_ClassTracksRows ==
    \A t \in DOMAIN index :
        /\ (t \in Elems(empty_tables)) = (count[t] = 0)
        /\ (t \in Elems(tables)) = (count[t] > 0)

\* the only row of a table that sits first among two non-empty tables is
\* deleted: the table is reclassified from non-empty to empty
C8_Witness ==
    /\ last.op = "delete_row"
    /\ last.empty
    /\ last.table \in Elems(last.pre.tables)
    /\ Len(last.pre.tables) = 2
    /\ last.pre.index[last.table] = 0
    /\ last.table \in Elems(empty_tables)
    /\ count[last.table] = 0

\* C9: no assertion of move_table fails, and no vector position is out of
\* bounds, in any sequence of insert, remove and set_empty calls on non-null
\* tables.
C9_NoAssertionFails == err = "none"

\* C10: remove_row(r) on a table of N rows, 0 <= r < N, leaves the entity,
\* back-reference and column arrays with N-1 rows each; when r is not the
\* last row, the entity that was in row N-1 is in row r of every array and
\* its record has row r; when r is the last row nothing is copied and no
\* record is patched; every other row and every other record is unchanged.
C10_SwapRemoveRow ==
    (last_row.op = "remove_row")
    => LET was == last_row.data
           n == Len(was.entities)
           r == last_row.row
           gone == was.entities[r + 1]
           moved == was.entities[n]
       IN  /\ Len(data.entities) = n - 1
           /\ Len(data.record_ptrs) = n - 1
           /\ \A c \in Columns : Len(data.columns[c]) = n - 1
           /\ r # n - 1 =>
                /\ data.entities[r + 1] = moved
                /\ data.record_ptrs[r + 1] = was.record_ptrs[n]
                /\ \A c \in Columns : data.columns[c][r + 1] = was.columns[c][n]
                /\ entity_index[moved] = [in_table |-> TRUE, row |-> r]
           /\ \A q \in 0..(n - 2) : q # r =>
                /\ data.entities[q + 1] = was.entities[q + 1]
                /\ data.record_ptrs[q + 1] = was.record_ptrs[q + 1]
                /\ \A c \in Columns :
                     data.columns[c][q + 1] = was.columns[c][q + 1]
           /\ \A e \in Entities :
                (e # gone /\ (e # moved \/ r = n - 1))
                    => entity_index[e] = last_row.entity_index[e]

\* the first of three rows is removed: the last row moves into it, the
\* middle row stays
C10_Witness ==
    /\ last_row.op = "remove_row"
    /\ last_row.row = 0
    /\ Len(last_row.data.entities) = 3
    /\ Len(data.entities) = 2
    /\ \A c \in Columns :
         last_row.data.columns[c][3] # last_row.data.columns[c][1]

\* the last of three rows is removed
C10_WitnessLast ==
    /\ last_row.op = "remove_row"
    /\ last_row.row = 2
    /\ Len(last_row.data.entities) = 3

(* --------------------------------- C11 --------------------------------- *)

\* the deltas of ds that are about entity e, in the order of ds
DeltasOf(ds, e) == SelectSeq(ds, LAMBDA d : d.entity = e)

\* what entity state st becomes when the deltas ds are applied one by one
RECURSIVE Replay(_, _)
Replay(st, ds) ==
    IF ds = <<>> THEN st ELSE Replay(apply_delta(st, Head(ds)), Tail(ds))

\* C11: stage isolation.  A mutation issued while the world is in progress is
\* appended to the stage of the issuing worker only: the main stage and the
\* other stages are as they were.  When a stage has been merged, every entity
\* of the main stage is what the deltas recorded for it, applied in the order
\* they were recorded, make of its state before the merge, and the merged
\* stage is empty.
C11_StageIsolation ==
    /\ last_world.op = "mutate" =>
         /\ last_world.pre.in_progress
         /\ world.main = last_world.pre.main
         /\ world.stage[last_world.worker] =
              Append(last_world.pre.stage[last_world.worker], last_world.delta)
         /\ \A w \in Workers \ {last_world.worker} :
              world.stage[w] = last_world.pre.stage[w]
    /\ last_world.op = "merge" =>
         /\ \A e \in Handles :
              world.main[e] =
                Replay(last_world.pre.main[e],
                       DeltasOf(last_world.pre.stage[last_world.worker], e))
         /\ world.stage[last_world.worker] = <<>>

\* a merge of a stage in which the order of the deltas matters: an entity is
\* created and then deleted, another is given a component on the way
C11_Witness ==
    /\ last_world.op = "merge"
    /\ \E e \in Handles :
         /\ last_world.pre.main[e] = "none"
         /\ last_world.pre.stage[last_world.worker] =
              <<[kind |-> "create", entity |-> e],
                [kind |-> "delete", entity |-> e]>>
         /\ world.main[e] = "none"

\* a mutation was staged while the main stage already held an entity
C11_WitnessMutate ==
    /\ last_world.op = "mutate"
    /\ last_world.delta.kind = "delete"
    /\ world.main[last_world.delta.entity] = "A"

(* --------------------------------- C12 --------------------------------- *)

\* some job of the world w is still running
JobRunning(w) == \E t \in Workers : w.job[t] = "running"

\* C12: merge is disjoint in time from iteration.  While the world is
\* merging no job is running and the completion count has reached the
\* dispatched job count; a merge step is taken in such a state only, and it
\* touches the one stage it merges, in the fixed order of the stages; the
\* main stage differs from what it was before the last step only when that
\* step was a merge step.
C12_MergeDisjoint ==
    /\ world.is_merging =>
         /\ ~JobRunning(world)
         /\ world.jobs_finished = world.job_count
    /\ last_world.op = "merge" =>
         /\ last_world.pre.is_merging
         /\ ~JobRunning(last_world.pre)
         /\ last_world.pre.jobs_finished = last_world.pre.job_count
         /\ last_world.worker = StageOrder[last_world.pre.merge_next]
         /\ \A w \in Workers \ {last_world.worker} :
              world.stage[w] = last_world.pre.stage[w]
    /\ world.main # last_world.pre.main => last_world.op = "merge"
    /\ JobRunning(world) => world.main = last_world.pre.main

\* a merge step changed the main stage after two jobs, both of which staged
\* a delta, had finished
C12_Witness ==
    /\ last_world.op = "merge"
    /\ world.main # last_world.pre.main
    /\ last_world.pre.job_count = 2
    /\ last_world.pre.jobs_finished = 2
    /\ last_world.worker = "w2"
    /\ world.main["e1"] # "none"
    /\ world.main["e2"] # "none"

(* --------------------------------- C13 --------------------------------- *)

\* C13: after any sequence of inserts of pairwise distinct tables and
\* set_empty calls, without remove, no call has failed an assertion, every
\* element of the two arrays refers to a registered table, and every
\* registered table is referenced by exactly one element, at the position its
\* index entry decodes to, the entry being negative exactly when that element
\* is in the empty array.
C13_BijectionNoRemove ==
    /\ err = "none"
    /\ Elems(tables) \cup Elems(empty_tables) = DOMAIN index
    /\ \A t \in DOMAIN index :
         /\ Refs(Cache, t) = 1
         /\ Located(Cache, t)
         /\ (index[t] < 0) = (t \in Elems(empty_tables))

\* set_empty moved the first of three tables of the non-empty array: the last
\* one was swapped into its place and both entries were rewritten
C13_Witness ==
    /\ Moved
    /\ Len(last.pre.tables) = 3
    /\ last.pre.index[last.table] = 0
    /\ Len(tables) = 2
    /\ Len(empty_tables) = 1
    /\ index[last.table] = 0 - 1
    /\ tables[1] = last.pre.tables[3]
    /\ index[tables[1]] = 0

(* --------------------------------- C14 --------------------------------- *)

\* the destination array of the set_empty call recorded in last, in cache c
DstOf(c) == IF last.empty THEN c.empty_tables ELSE c.tables

LastOfSrc == SrcBefore[Len(SrcBefore)]

\* the tables whose index entry the call in last has changed
Rewritten == {u \in DOMAIN last.pre.index : index[u] # last.pre.index[u]}

\* C15: a set_empty call that moves table t changes the index entry of t and
\* of at most one other table, the one that was last in the source array,
\* whose entry becomes the entry t had; every other table keeps its entry and
\* its position in its array, the set of registered tables is the same, and
\* so is the sum of the lengths of the two arrays.
C15_SwapPatchBounded ==
    (Moved /\ err = "none") =>
        /\ DOMAIN index = DOMAIN last.pre.index
        /\ Len(tables) + Len(empty_tables)
             = Len(last.pre.tables) + Len(last.pre.empty_tables)
        /\ last.table \in Rewritten
        /\ Rewritten \subseteq {last.table, LastOfSrc}
        /\ (LastOfSrc \in Rewritten /\ LastOfSrc # last.table) =>
             index[LastOfSrc] = last.pre.index[last.table]
        /\ \A u \in DOMAIN index \ {last.table, LastOfSrc} :
             /\ Positions(tables, u) = Positions(last.pre.tables, u)
             /\ Positions(empty_tables, u)
                  = Positions(last.pre.empty_tables, u)

\* the moved table was not the last of its array: the last one took its
\* entry, and a third table stayed where it was
C15_Witness ==
    /\ Moved
    /\ err = "none"
    /\ Bijection(last.pre)
    /\ Rewritten = {last.table, LastOfSrc}
    /\ LastOfSrc # last.table
    /\ index[LastOfSrc] = last.pre.index[last.table]

\* as C15_Witness, and a third table stayed where it was
C15_WitnessThird ==
    /\ C15_Witness
    /\ DOMAIN index \ {last.table, LastOfSrc} # {}

(* --------------------------------- C16 --------------------------------- *)

\* the call in last is set_empty or remove of a table without an index entry
Unregistered ==
    /\ last.op \in {"set_empty", "remove"}
    /\ last.table \notin DOMAIN last.pre.index

\* C16: set_empty(t, e) and remove(t) of a table that has no entry in
\* cache->index, on a freshly initialised cache or on any other, return
\* without a failure and leave both arrays and every index entry as they
\* were.
C16_UnregisteredNoOp ==
    Unregistered =>
        /\ err = "none"
        /\ tables = last.pre.tables
        /\ empty_tables = last.pre.empty_tables
        /\ index = last.pre.index

\* remove of a table without an entry, on a cache that holds another table
C16_Witness ==
    /\ Unregistered
    /\ last.op = "remove"
    /\ Len(last.pre.tables) = 1
    /\ Bijection(last.pre)
    /\ Cache = last.pre

\* set_empty on the freshly initialised cache
C16_WitnessFresh ==
    /\ Unregistered
    /\ last.op = "set_empty"
    /\ last.pre = ecs_table_cache_init
    /\ Cache = ecs_table_cache_init

(* --------------------------------- C17 --------------------------------- *)

\* the array the index entry of the table of the call in last does not
\* point into, before and after the call
OtherBefore == ArrayOf(last.pre, 0 - last.pre.index[last.table] - 1)

OtherAfter == ArrayOf(Cache, 0 - last.pre.index[last.table] - 1)

\* C17: remove(t) of a table with an index entry takes the empty array when
\* index[t] < 0 and the non-empty array otherwise, returns with that array
\* one element shorter, and leaves the other array as it was.
C17_RemoveShrinksOne ==
    (last.op = "remove" /\ last.table \in DOMAIN last.pre.index) =>
        /\ err = "none"
        /\ Len(SrcAfter) = Len(SrcBefore) - 1
        /\ OtherAfter = OtherBefore

\* the same for calls that find an element in the array they select
C17_NonEmptySource ==
    (/\ last.op = "remove"
     /\ last.table \in DOMAIN last.pre.index
     /\ Len(SrcBefore) > 0) =>
        /\ err = "none"
        /\ Len(SrcAfter) = Len(SrcBefore) - 1
        /\ OtherAfter = OtherBefore

(* --------------------------------- C18 --------------------------------- *)

\* the step is a call of set_empty for the table of the call in last
SetEmptyAgain(e) ==
    /\ last'.op = "set_empty"
    /\ last'.table = last.table
    /\ last'.empty = e

\* C18: toggle round trip and idempotence.  When set_empty(t, e) has moved a
\* registered table t of a cache in which the bijection held, and the next
\* call is set_empty(t, ~e), then each array holds the tables it held before
\* the first call and every index entry decodes to the position of the one
\* element of its table (t itself may be at another position).  When
\* set_empty(t, e) has returned and the next call is set_empty(t, e) again,
\* that call changes neither array nor any index entry.
C18_ToggleRoundTrip ==
    [][/\ (/\ Moved
           /\ err = "none"
           /\ Bijection(last.pre)
           /\ SetEmptyAgain(~last.empty)) =>
              /\ err' = "none"
              /\ Elems(tables') = Elems(last.pre.tables)
              /\ Elems(empty_tables') = Elems(last.pre.empty_tables)
              /\ Len(tables') = Len(last.pre.tables)
              /\ Len(empty_tables') = Len(last.pre.empty_tables)
              /\ DOMAIN index' = DOMAIN last.pre.index
              /\ Bijection(Cache')
       /\ (/\ last.op = "set_empty"
           /\ err = "none"
           /\ SetEmptyAgain(last.empty)) =>
              /\ err' = "none"
              /\ Cache' = Cache
      ]_vars

\* set_empty has moved the first of two tables of the non-empty array to the
\* empty array: toggled back, the table gets the second position
C18_Witness ==
    /\ Moved
    /\ err = "none"
    /\ Bijection(last.pre)
    /\ last.empty
    /\ Len(last.pre.tables) = 2
    /\ last.pre.index[last.table] = 0
    /\ tables = <<last.pre.tables[2]>>

(* --------------------------------- C19 --------------------------------- *)

\* C19: in every state reached by insert, remove and set_empty calls on
\* non-null tables, cache->index has as many entries as the two arrays have
\* elements together.
C19_EntryCount ==
    Cardinality(DOMAIN index) = Len(tables) + Len(empty_tables)

\* the same up to the first call of remove
C19_BeforeRemove ==
    [][last'.op # "remove" =>
         (Cardinality(DOMAIN index) = Len(tables) + Len(empty_tables) =>
            Cardinality(DOMAIN index') = Len(tables') + Len(empty_tables'))
      ]_vars

(* --------------------------------- C20 --------------------------------- *)

\* C20: after any call of insert, also of a table that is already registered,
\* every registered table is referenced by at most one element of the two
\* arrays.
C20_NoDuplicates ==
    last.op = "insert" => \A t \in DOMAIN index : Refs(Cache, t) <= 1

\* the same for inserts of tables that no element refers to
C20_InsertAbsent ==
    (/\ last.op = "insert"
     /\ Refs(last.pre, last.table) = 0
     /\ \A t \in DOMAIN last.pre.index : Refs(last.pre, t) <= 1) =>
        \A t \in DOMAIN index : Refs(Cache, t) <= 1

(* --------------------------------- C21 --------------------------------- *)

\* the call in last is an insert of the null table
NullInserted == last.op = "insert" /\ last.table = NULL

\* the call in last is set_empty or remove of a table that is where its
\* entry says, in a non-empty array that also holds an element without table
BesideNull ==
    /\ last.op \in {"set_empty", "remove"}
    /\ Located(last.pre, last.table)
    /\ last.pre.index[last.table] >= 0
    /\ last.op = "set_empty" => last.empty
    /\ NULL \in Elems(last.pre.tables)

\* the first half of C21: an insert of the null table appends an element
\* whose table is null to the non-empty array, and leaves the empty array
\* and the index as they were
C21_NullAppended ==
    NullInserted =>
        /\ err = "none"
        /\ tables = Append(last.pre.tables, NULL)
        /\ empty_tables = last.pre.empty_tables
        /\ index = last.pre.index

\* C21: an insert of the null table appends an element whose table is null
\* to the non-empty array and adds no index entry; a later set_empty or
\* remove of another table of the non-empty array returns without a failure,
\* also when the element without table is the last of the array.
C21_NullInsert ==
    /\ C21_NullAppended
    /\ BesideNull => err = "none"

====
